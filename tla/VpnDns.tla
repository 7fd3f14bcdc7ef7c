------------------------------- MODULE VpnDns -------------------------------
(***************************************************************************)
(* The source of VPN DNS servers (internal/vpndns): a snapshot of the DNS  *)
(* servers of the activated WireGuard connections, read from               *)
(* NetworkManager over D-Bus once before the client serves and then on     *)
(* every tick of the poller.                                               *)
(*                                                                         *)
(* A refresh is not atomic: it reads the list of active connections first, *)
(* those that are still being activated or already deactivated among them; *)
(* then of each its type and state, and then its servers, one D-Bus call   *)
(* after another, while connections come, change and go.  An error in the  *)
(* first call fails the refresh; an error in a later one only leaves out   *)
(* what it should have returned.  NetworkManager and the bus are external. *)
(* The refreshes of one provider follow one another: the poller starts     *)
(* after the first one.                                                    *)
(***************************************************************************)
EXTENDS FiniteSets

CONSTANTS
  Connection,  \* the connections of NetworkManager
  WireGuard,   \* those of type "wireguard"
  Address,     \* DNS server addresses
  ServersOf    \* ServersOf[c]: the servers connection c advertises

ASSUME VpnDnsAssumption ==
  /\ IsFiniteSet(Connection) /\ WireGuard \subseteq Connection
  /\ ServersOf \in [Connection -> SUBSET Address]

VARIABLES
  state,     \* state[c]: "absent" from the list of active connections, "changing"
             \* (activating or deactivating), or "activated"
  phase,     \* where the refresh is: "idle" or "reading"
  todo,      \* connections of the list it read that are still to be read
  qualified, \* the one of them, if any, whose type and state were right
  sources,   \* the servers it has found
  seen,      \* the WireGuard connections activated at some time in this refresh
  steady,    \* those activated all the time, about which no call has failed
  snapshot   \* servers

refresh == <<phase, todo, qualified, sources, seen, steady>>
vpnVars == <<state, refresh, snapshot>>

States == {"absent", "changing", "activated"}

Activated == {c \in WireGuard : state[c] = "activated"}

VpnInit ==
  /\ state \in [Connection -> States]
  /\ phase = "idle"
  /\ todo = {} /\ qualified = {}
  /\ sources = {}
  /\ seen = {} /\ steady = {}
  /\ snapshot = {}

(* A connection is brought up or taken down, or fails.  An active connection    *)
(* that returns is a new object of the bus: while a refresh has the old one on  *)
(* its list, the name is not used again.                                        *)
Switch(c) ==
  /\ \E s \in States \ {state[c]} :
       /\ state[c] = "absent" => s = "changing" /\ c \notin todo
       /\ state' = [state EXCEPT ![c] = s]
  /\ seen' = IF phase = "reading" THEN seen \cup Activated' ELSE seen
  /\ steady' = steady \cap Activated'
  /\ UNCHANGED <<phase, todo, qualified, sources, snapshot>>

(* fetchNMServers reads ActiveConnections. *)
ReadList ==
  /\ phase = "idle"
  /\ phase' = "reading"
  /\ todo' = {c \in Connection : state[c] # "absent"}
  /\ seen' = Activated /\ steady' = Activated
  /\ UNCHANGED <<state, qualified, sources, snapshot>>

\* The call fails: refreshOnce returns the error and changes nothing.
ReadListFails == phase = "idle" /\ UNCHANGED vpnVars

\* The loop comes to connection c.
Turn(c) == phase = "reading" /\ qualified = {} /\ c \in todo

\* Mutant: the state of the connection is not looked at.
QualifiesAnyState(c) == c \in WireGuard /\ state[c] # "absent"

\* Its type is "wireguard" and its state nmStateActivated.
Qualifies(c) == c \in Activated

(* activeVpnServers looks at the type and the state: one that does not qualify, *)
(* or has gone since the list was read, has no servers.                         *)
CheckConnection(c) ==
  /\ Turn(c)
  /\ IF Qualifies(c) THEN qualified' = {c} /\ UNCHANGED todo
     ELSE todo' = todo \ {c} /\ UNCHANGED qualified
  /\ UNCHANGED <<state, phase, sources, seen, steady, snapshot>>

\* One of the two calls fails, which drops the connection.
CheckConnectionFails(c) ==
  /\ Turn(c)
  /\ todo' = todo \ {c}
  /\ steady' = steady \ {c}
  /\ UNCHANGED <<state, phase, qualified, sources, seen, snapshot>>

Read(c, servers) ==
  /\ c \in qualified
  /\ qualified' = {} /\ todo' = todo \ {c}
  /\ sources' = sources \cup servers
  /\ UNCHANGED <<state, phase, seen, snapshot>>

(* It reads the configurations, whatever the state is by now; once the          *)
(* connection has gone there is nothing to read.                                *)
ReadServers(c) ==
  /\ Read(c, IF state[c] = "absent" THEN {} ELSE ServersOf[c])
  /\ UNCHANGED steady

\* A failed call loses one of the configurations, or both.
ReadServersFails(c) ==
  /\ \E kept \in SUBSET ServersOf[c] : kept # ServersOf[c] /\ Read(c, kept)
  /\ steady' = steady \ {c}

\* Mutant: an empty list of servers is not stored.
StoreNonEmpty ==
  /\ phase = "reading" /\ todo = {}
  /\ snapshot' = IF sources = {} THEN snapshot ELSE sources
  /\ phase' = "idle" /\ sources' = {} /\ seen' = {} /\ steady' = {}
  /\ UNCHANGED <<state, todo, qualified>>

(* refreshOnce stores what it found. *)
StoreSnapshot ==
  /\ phase = "reading" /\ todo = {}
  /\ snapshot' = sources
  /\ phase' = "idle" /\ sources' = {} /\ seen' = {} /\ steady' = {}
  /\ UNCHANGED <<state, todo, qualified>>

ReadNext == \E c \in Connection : CheckConnection(c) \/ ReadServers(c)
ReadFails == \E c \in Connection : CheckConnectionFails(c) \/ ReadServersFails(c)

Poll == ReadList \/ ReadNext \/ StoreSnapshot
Outage == ReadListFails \/ ReadFails

VpnNext == Poll \/ Outage \/ \E c \in Connection : Switch(c)

VpnSpec == VpnInit /\ [][VpnNext]_vpnVars
-----------------------------------------------------------------------------
(* Type invariant of the provider and of the refresh in progress, which starts *)
(* from nothing.                                                               *)
VpnTypeOK ==
  /\ state \in [Connection -> States]
  /\ todo \subseteq Connection /\ qualified \subseteq todo
  /\ phase \in {"idle", "reading"}
  /\ sources \subseteq Address /\ snapshot \subseteq Address
  /\ seen \subseteq WireGuard /\ steady \subseteq WireGuard
  /\ phase = "idle" => todo = {} /\ sources = {} /\ seen = {} /\ steady = {}

Advertised(connections) == UNION {ServersOf[c] : c \in connections}

(* A refresh reads connection by connection while they come and go, and many of *)
(* those it has listed are not activated, or no longer, when their turn comes.  *)
(* Still the snapshot it leaves has all the servers of the WireGuard connections *)
(* that were activated all the time and about which no call failed, and none    *)
(* but of those that were activated at some time meanwhile.                     *)
SnapshotRegular ==
  [][phase = "reading" /\ phase' = "idle" =>
       Advertised(steady) \subseteq snapshot' /\ snapshot' \subseteq Advertised(seen)]_vpnVars
=============================================================================
