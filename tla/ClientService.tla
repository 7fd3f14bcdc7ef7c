--------------------------- MODULE ClientService ---------------------------
(***************************************************************************)
(* The client as a service (runClientService, attachVPN, and               *)
(* client.ListenAndServe): it refreshes the VPN provider once, starts its  *)
(* poller, starts a DNS server for UDP and one for TCP, and serves until a *)
(* signal cancels it or a server fails; then it shuts both servers down,   *)
(* one after the other, and waits for their goroutines.                    *)
(*                                                                         *)
(* The DNS servers are miekg/dns's and external: ListenAndServe binds,     *)
(* serves, and returns when its listener fails or it is shut down, after   *)
(* its handlers; Shutdown waits for it, but is an error, which the client  *)
(* ignores, on a server that has not bound yet.                            *)
(*                                                                         *)
(* Client has none of the names here, so that a module can extend both.    *)
(***************************************************************************)
EXTENDS VpnDns, Integers

CONSTANTS MaxBusy  \* bound: queries one server handles at a time

VARIABLES
  main,       \* where runClientService is
  poller,     \* the goroutine of Start: "off", "first", "ticking" or "ended"
  periodic,   \* interval > 0
  cancelled,  \* the signal has come: requestContext is done
  srv,        \* srv[n]: where the goroutine of the server for network n is
  busy,       \* busy[n]: the queries it is handling
  errs,       \* errorChannel: the errors in it
  firstError, \* whether firstError is set
  missed      \* the servers Shutdown found unbound

serverVars == <<srv, busy, errs>>
mainVars == <<main, firstError, missed>>
serviceVars == <<mainVars, serverVars, poller, periodic, cancelled>>
processVars == <<vpnVars, serviceVars>>

Network == {"udp", "tcp"}

\* Mutant: a channel that holds one error.
ErrorCapacityOne == 1

ErrorCapacity == 2

ServiceInit ==
  /\ VpnInit
  /\ main = "attach"
  /\ poller = "off" /\ periodic \in BOOLEAN
  /\ cancelled = FALSE
  /\ srv = [n \in Network |-> "none"] /\ busy = [n \in Network |-> 0]
  /\ errs = 0 /\ firstError = FALSE /\ missed = {}

-----------------------------------------------------------------------------
(* attachVPN: without a bus the client has no provider. *)
Attach ==
  /\ main = "attach"
  /\ main' \in {"refresh", "listen"}
  /\ UNCHANGED <<vpnVars, firstError, missed, serverVars, poller, periodic, cancelled>>

Running == main # "exited"
Refreshing == main = "refresh" \/ poller \in {"first", "ticking"}

RefreshStep ==
  /\ Refreshing
  /\ ReadList \/ ReadNext \/ ReadFails
  /\ UNCHANGED serviceVars

(* The refresh is over, stored or failed: attachVPN's, which then starts the *)
(* poller, the first one of the poller, or that of a tick.                   *)
RefreshEnds ==
  /\ Refreshing
  /\ StoreSnapshot \/ ReadListFails
  /\ IF main = "refresh" THEN main' = "listen" /\ poller' = "first"
     ELSE /\ poller' = IF poller = "first" /\ ~periodic THEN "ended" ELSE "ticking"
          /\ UNCHANGED main
  /\ UNCHANGED <<firstError, missed, serverVars, periodic, cancelled>>

PollerEnds ==
  /\ Running
  /\ poller = "ticking" /\ phase = "idle" /\ cancelled
  /\ poller' = "ended"
  /\ UNCHANGED <<vpnVars, mainVars, serverVars, periodic, cancelled>>

-----------------------------------------------------------------------------
(* ListenAndServe starts a goroutine for each server. *)
Listen ==
  /\ main = "listen"
  /\ main' = "serving"
  /\ srv' = [n \in Network |-> "spawned"]
  /\ UNCHANGED <<vpnVars, firstError, missed, busy, errs, poller, periodic, cancelled>>

Move(n, from, to) == srv[n] = from /\ srv' = [srv EXCEPT ![n] = to]

\* The server binds its socket, or fails to.
Bind(n) ==
  /\ Running
  /\ Move(n, "spawned", "serving") \/ Move(n, "spawned", "error")
  /\ UNCHANGED <<vpnVars, mainVars, busy, errs, poller, periodic, cancelled>>

\* Its listener fails while it serves.
ServeFails(n) ==
  /\ Running
  /\ Move(n, "serving", "failing")
  /\ UNCHANGED <<vpnVars, mainVars, busy, errs, poller, periodic, cancelled>>

(* handleDNS, which no shutdown interrupts. *)
Handle(n) ==
  /\ Running
  /\ srv[n] = "serving" /\ busy[n] < MaxBusy
  /\ busy' = [busy EXCEPT ![n] = @ + 1]
  /\ UNCHANGED <<vpnVars, mainVars, srv, errs, poller, periodic, cancelled>>

QueryEnds(n) ==
  /\ Running
  /\ busy[n] > 0
  /\ busy' = [busy EXCEPT ![n] = @ - 1]
  /\ UNCHANGED <<vpnVars, mainVars, srv, errs, poller, periodic, cancelled>>

\* The handlers are done: the server returns, with an error unless it was shut down.
Stopped(n) ==
  /\ Running
  /\ busy[n] = 0
  /\ Move(n, "draining", "ended") \/ Move(n, "failing", "error")
  /\ UNCHANGED <<vpnVars, mainVars, busy, errs, poller, periodic, cancelled>>

(* errorChannel <- err, then Done. *)
Report(n) ==
  /\ Running
  /\ errs < ErrorCapacity
  /\ Move(n, "error", "ended")
  /\ errs' = errs + 1
  /\ UNCHANGED <<vpnVars, mainVars, busy, poller, periodic, cancelled>>

-----------------------------------------------------------------------------
\* SIGINT or SIGTERM.
Cancel ==
  /\ Running /\ ~cancelled
  /\ cancelled' = TRUE
  /\ UNCHANGED <<vpnVars, mainVars, serverVars, poller, periodic>>

(* The select of ListenAndServe. *)
Wake ==
  /\ main = "serving"
  /\ \/ cancelled /\ UNCHANGED <<firstError, errs>>
     \/ errs > 0 /\ errs' = errs - 1 /\ firstError' = TRUE
  /\ main' = "udp"
  /\ UNCHANGED <<vpnVars, missed, srv, busy, poller, periodic, cancelled>>

\* main is at the Shutdown of the server named, and then at the next one.
AfterShutdown == [n \in Network |-> IF n = "udp" THEN "tcp" ELSE "wait"]

Shutdown(n) ==
  /\ main = n
  /\ \/ Move(n, "serving", "draining") /\ UNCHANGED <<main, missed>>
     \/ /\ srv[n] \in {"error", "ended"}
        /\ main' = AfterShutdown[n]
        /\ UNCHANGED <<srv, missed>>
     \/ /\ srv[n] = "spawned"
        /\ main' = AfterShutdown[n]
        /\ missed' = missed \cup {n}
        /\ UNCHANGED srv
  /\ UNCHANGED <<vpnVars, firstError, busy, errs, poller, periodic, cancelled>>

\* Mutant: no waitGroup.Wait.
ExitAtOnce ==
  /\ main = "wait"
  /\ main' = "exited"
  /\ poller' = "ended"
  /\ UNCHANGED <<vpnVars, firstError, missed, serverVars, periodic, cancelled>>

(* waitGroup.Wait; the process ends, and with it the poller. *)
Exit ==
  /\ main = "wait"
  /\ \A n \in Network : srv[n] = "ended"
  /\ main' = "exited"
  /\ poller' = "ended"
  /\ UNCHANGED <<vpnVars, firstError, missed, serverVars, periodic, cancelled>>

SwitchAny ==
  /\ Running
  /\ \E c \in Connection : Switch(c)
  /\ UNCHANGED serviceVars

Terminated == ~Running /\ UNCHANGED processVars

Main == Attach \/ Listen \/ Wake \/ Exit \/ \E n \in Network : Shutdown(n)

ServiceNext ==
  \/ Main \/ RefreshStep \/ RefreshEnds \/ PollerEnds \/ Cancel \/ SwitchAny
  \/ \E n \in Network :
       Bind(n) \/ ServeFails(n) \/ Handle(n) \/ QueryEnds(n) \/ Stopped(n) \/ Report(n)
  \/ Terminated

\* Goroutines are scheduled; a query ends, by the timeouts of Resolve; D-Bus answers,
\* sooner or later, and the ticker fires.
Fairness ==
  /\ WF_processVars(Main) /\ WF_processVars(Poll /\ (RefreshStep \/ RefreshEnds))
  /\ \A n \in Network :
       WF_processVars(Bind(n)) /\ WF_processVars(QueryEnds(n)) /\ WF_processVars(Stopped(n)) /\ WF_processVars(Report(n))

ServiceSpec == ServiceInit /\ [][ServiceNext]_processVars /\ Fairness
-----------------------------------------------------------------------------
(* runClientService returns only when both servers have, no query they took is  *)
(* left without its answer, and the process was asked to stop or says why not.  *)
NothingLeft ==
  main = "exited" =>
    /\ \A n \in Network : srv[n] = "ended" /\ busy[n] = 0
    /\ cancelled \/ firstError

(* A signal, or an error of a server, stops the service, whatever else fails    *)
(* meanwhile; unless it comes before a server has bound its socket: Shutdown    *)
(* then misses that server, and waitGroup.Wait waits for it for ever.           *)
ServiceStops == cancelled \/ errs > 0 ~> main = "exited" \/ missed # {}

(* The snapshot follows the network: when connections no longer come and go and *)
(* D-Bus answers, it ends up as the servers of the activated connections, for   *)
(* as long as the poller runs.                                                  *)
SnapshotFollows ==
  <>[][Poll]_vpnVars /\ <>[](poller = "ticking") => <>[](snapshot = Advertised(Activated))
=============================================================================
